---- MODULE Spec2Model ----
(***************************************************************************)
(* etlstat.database: the Generic SQL Gateway (class MySQL, mysql.py) and   *)
(* the Schema-Aware Gateway (class Oracle, oracle.py).                     *)
(*                                                                         *)
(* SQL text is modelled as structured statements whose value literals are  *)
(* the character sequences the code formats; the engine lexes them back.   *)
(* A call of a gateway method is one action: the whole handler, with the   *)
(* nested calls it makes.  Failures of the engine are inputs of the call.  *)
(***************************************************************************)
EXTENDS Integers, Sequences, FiniteSets, TLC

VARIABLES
    connected,   \* MySQL.connected (class attribute)
    engine,      \* MySQL.engine (class attribute)
    created,     \* how many times create_engine has returned a handle
    db,          \* the MySQL database behind the engine (one table name)
    csv,         \* whether the staging file temp.csv exists on disk
    call,        \* the last completed Generic Gateway call: arguments and outcome
    inserts,     \* history: what the insert calls did about createTable
    ora,         \* the Oracle database: tables by <<schema, name>>
    oraOpen,     \* connections acquired from Oracle.engine and not released
    ocall,       \* the last completed Schema-Aware Gateway call
    fs,          \* loader files on disk under output_path
    proc,        \* the sqlldr subprocesses launched by load_data
    ldpc,        \* position of the caller inside load_data
    threads      \* concurrent callers of the Generic Gateway: where each is

vars == <<connected, engine, created, db, csv, call, inserts,
          ora, oraOpen, ocall, fs, proc, ldpc, threads>>

mysqlVars == <<connected, engine, created, db, csv, call, inserts, threads>>
oracleVars == <<ora, oraOpen, ocall, fs, proc, ldpc>>

----------------------------------------------------------------------------
(* Bounds *)

MaxRows == 2        \* rows of a DataFrame argument
MaxDbRows == 2      \* rows the MySQL table may hold
MaxCreates == 2     \* createTable statements issued by insert calls that are counted
MaxOraRows == 2     \* rows the Oracle table may hold
MaxLeaks == 2       \* Oracle connections left unreleased that are counted
MaxLoadRows == 1    \* rows of a DataFrame handed to load_data
MaxProcs == 1       \* sqlldr subprocesses running at once
NumCallers == 2     \* threads that call the Generic Gateway concurrently

----------------------------------------------------------------------------
(* Python values and DataFrames *)

Ok == "ok"

Columns == <<"id", "name">>

\* dtype of each column of the DataFrames used: str(table[label].dtype)
dtype(label) == IF label = "id" THEN "int64" ELSE "object"

Quote == "'"

\* A Python value: an int, or a str as its sequence of characters.
PyInt(i) == [str |-> FALSE, i |-> i, s |-> <<>>]
PyStr(s) == [str |-> TRUE, i |-> 0, s |-> s]

TextA == <<"a">>
TextQQ == <<Quote, Quote>>

\* isinstance(value, str)
IsText(v) == v.str

Row(i, n) == [id |-> PyInt(i), name |-> PyStr(n)]

\* conversion_map of class MySQL
conversion_map ==
    [d \in {"object", "int64", "float64"} |->
        IF d = "object" THEN "VARCHAR(255)"
        ELSE IF d = "int64" THEN "INT" ELSE "DECIMAL"]

\* A table argument: a DataFrame (name + rows), a str, or something else.
DataFrame(rows) == [shape |-> "DataFrame", name |-> "t", rows |-> rows]
StrTable == [shape |-> "str", name |-> "t", rows |-> <<>>]
OtherTable == [shape |-> "other", name |-> "", rows |-> <<>>]

IsDataFrame(table) == table.shape = "DataFrame"
IsStr(table) == table.shape = "str"

RECURSIVE SeqsUpTo(_, _)
SeqsUpTo(S, n) ==
    IF n = 0 THEN {<<>>}
    ELSE LET shorter == SeqsUpTo(S, n - 1)
         IN shorter \cup {Append(s, x) : s \in {t \in shorter : Len(t) = n - 1}, x \in S}

----------------------------------------------------------------------------
(* Connection descriptors: token sequences, split as str.split does *)

Desc(toks) == [isStr |-> TRUE, toks |-> toks]

DescA == Desc(<<"mysql+mysqlconnector", "://", "user", ":", "pw", "@",
                "127.0.0.1", ":", "3306", "/", "testdb">>)
DescB == Desc(<<"mysql+mysqlconnector", "://", "user", ":", "pw", "@",
                "127.0.0.1", ":", "3306", "/", "otherdb">>)
DescEmpty == Desc(<<>>)
DescNoScheme == Desc(<<"user", ":", "pw", "@", "127.0.0.1">>)
DescNoDb == Desc(<<"mysql+mysqlconnector", "://", "user", ":", "pw", "@",
                   "127.0.0.1", ":", "3306">>)
DescPg == Desc(<<"postgresql", "://", "user", ":", "pw", "@",
                 "127.0.0.1", ":", "5432", "/", "testdb">>)
DescNone == [isStr |-> FALSE, toks |-> <<>>]

Descriptors == {DescA, DescB, DescEmpty, DescNoScheme, DescNoDb, DescPg, DescNone}

\* str.split(sep): the parts between the occurrences of sep
RECURSIVE Split(_, _)
Split(s, sep) ==
    IF \A i \in 1..Len(s) : s[i] # sep THEN <<s>>
    ELSE LET k == CHOOSE i \in 1..Len(s) :
                      s[i] = sep /\ \A j \in 1..(i - 1) : s[j] # sep
         IN <<SubSeq(s, 1, k - 1)>> \o Split(SubSeq(s, k + 1, Len(s)), sep)

NoEngine == [set |-> FALSE, url |-> <<>>, id |-> 0]

----------------------------------------------------------------------------
(* The world a call runs in, and the result of a step of it *)

\* n: calls made to the engine so far in this call (has_table and execute);
\* issued: SQL statements handed to engine.execute in this call;
\* creates: CREATE TABLE statements among them; insertsDone: INSERT statements
\* that succeeded; staged: the call wrote temp.csv; checked: what has_table
\* answered in this call ("no": not asked or no answer).
World(c, e, k, d, f) ==
    [connected |-> c, engine |-> e, created |-> k, db |-> d, csv |-> f,
     n |-> 0, issued |-> 0, creates |-> 0, insertsDone |-> 0, staged |-> FALSE,
     checked |-> "no"]

Res(w, exc, ret, rows) == [w |-> w, exc |-> exc, ret |-> ret, rows |-> rows]

Raise(w, exc) == Res(w, exc, 0, <<>>)
Return(w, ret) == Res(w, Ok, ret, <<>>)

\* Statements run in order, each once: the step r has run when what follows it
\* starts, and an exception raised by r ends the call there.
Then(r, next(_)) ==
    CHOOSE out \in {IF x.exc # Ok THEN x ELSE next(x) : x \in {r}} : TRUE

\* The value v is computed once and handed to what uses it.
Once(v, use(_)) == CHOOSE out \in {use(x) : x \in {v}} : TRUE

----------------------------------------------------------------------------
(* SQL literals: how the code formats a value, how the engine reads it back *)

Digits == <<"0", "1", "2", "3", "4", "5", "6", "7", "8", "9">>

\* str(value) of a small non-negative integer
IntStr(i) == <<Digits[i + 1]>>

\* str(value)
ToStr(value) == IF IsText(value) THEN value.s ELSE IntStr(value.i)

\* "'{0}', ".format(value) for a str, "{0}, ".format(value) otherwise
FormatValue(value) ==
    IF IsText(value) THEN <<Quote>> \o value.s \o <<Quote>> ELSE IntStr(value.i)

Bad == [ok |-> FALSE, text |-> FALSE, int |-> 0, str |-> <<>>]
IntLit(i) == [ok |-> TRUE, text |-> FALSE, int |-> i, str |-> <<>>]
StrLit(s) == [ok |-> TRUE, text |-> TRUE, int |-> 0, str |-> s]

\* The engine's lexer inside a quoted literal, from position i: a doubled quote
\* is one quote character, a single quote ends the literal, and the literal must
\* end the token.
RECURSIVE LexStr(_, _, _)
LexStr(s, i, acc) ==
    IF i > Len(s) THEN Bad
    ELSE IF s[i] = Quote
         THEN IF i + 1 <= Len(s) /\ s[i + 1] = Quote
              THEN LexStr(s, i + 2, Append(acc, Quote))
              ELSE IF i = Len(s) THEN StrLit(acc) ELSE Bad
         ELSE LexStr(s, i + 1, Append(acc, s[i]))

Lex(lit) ==
    IF lit = <<>> THEN Bad
    ELSE IF lit[1] = Quote THEN LexStr(lit, 2, <<>>)
    ELSE IF Len(lit) = 1 /\ \E d \in 1..10 : Digits[d] = lit[1]
         THEN IntLit((CHOOSE d \in 1..10 : Digits[d] = lit[1]) - 1)
         ELSE Bad

\* The value a literal denotes in a column (INT or VARCHAR).
LitValue(l) == IF l.text THEN PyStr(l.str) ELSE PyInt(l.int)

\* Whether a stored column value equals a literal of a WHERE clause.
ValueEquals(v, l) == LitValue(l) = v

----------------------------------------------------------------------------
(* The database engine behind MySQL.engine *)

NoTable == [exists |-> FALSE, schema |-> <<>>, rows |-> <<>>]

Stmt(kind, table, a, b, wf) ==
    [kind |-> kind, table |-> table, a |-> a, b |-> b, wf |-> wf]

ExecResult(d, err, rowcount, rows) ==
    [db |-> d, err |-> err, rowcount |-> rowcount, rows |-> rows]

ExecError(d) == ExecResult(d, TRUE, 0, <<>>)

\* pairs is a sequence of <<label, literal>>
AllLex(pairs) == \A i \in 1..Len(pairs) : Lex(pairs[i][2]).ok

RowMatches(row, conds) ==
    \A i \in 1..Len(conds) : ValueEquals(row[conds[i][1]], Lex(conds[i][2]))

RECURSIVE ApplySets(_, _, _)
ApplySets(row, sets, i) ==
    IF i > Len(sets) THEN row
    ELSE ApplySets([row EXCEPT ![sets[i][1]] = LitValue(Lex(sets[i][2]))], sets, i + 1)

SelectRows(rows, conds) == SelectSeq(rows, LAMBDA r : RowMatches(r, conds))

\* A line of the staging file read back by LOAD DATA ... FIELDS TERMINATED BY ';'
LoadField(label, field) ==
    IF label = "id"
    THEN PyInt(IF Lex(field).ok /\ ~Lex(field).text THEN Lex(field).int ELSE 0)
    ELSE PyStr(field)

LoadRow(line) == [id |-> LoadField("id", line[1]), name |-> LoadField("name", line[2])]

\* What the engine does with one statement.
Exec(d, s) ==
    IF ~s.wf THEN ExecError(d)
    ELSE IF s.kind = "CREATE"
    THEN IF d.exists THEN ExecError(d)
         ELSE ExecResult([exists |-> TRUE, schema |-> s.a, rows |-> <<>>], FALSE, 0, <<>>)
    ELSE IF ~d.exists THEN ExecError(d)
    ELSE IF s.kind = "INSERT"
    THEN IF ~AllLex(s.a) THEN ExecError(d)
         ELSE ExecResult([d EXCEPT !.rows = Append(@, ApplySets(Row(0, <<>>), s.a, 1))],
                         FALSE, 1, <<>>)
    ELSE IF s.kind = "UPDATE"
    THEN IF ~AllLex(s.a) \/ ~AllLex(s.b) THEN ExecError(d)
         ELSE ExecResult(
                [d EXCEPT !.rows = [i \in 1..Len(d.rows) |->
                    IF RowMatches(d.rows[i], s.b)
                    THEN ApplySets(d.rows[i], s.a, 1) ELSE d.rows[i]]],
                FALSE, Len(SelectRows(d.rows, s.b)), <<>>)
    ELSE IF s.kind = "SELECT"
    THEN IF ~AllLex(s.b) THEN ExecError(d)
         ELSE ExecResult(d, FALSE, Len(SelectRows(d.rows, s.b)), SelectRows(d.rows, s.b))
    ELSE IF s.kind = "DELETE"
    THEN IF ~AllLex(s.b) THEN ExecError(d)
         ELSE ExecResult(
                [d EXCEPT !.rows = SelectSeq(d.rows, LAMBDA r : ~RowMatches(r, s.b))],
                FALSE, Len(SelectRows(d.rows, s.b)), <<>>)
    ELSE \* LOAD DATA LOCAL INFILE: s.a is the content of the file
         ExecResult([d EXCEPT !.rows = @ \o [i \in 1..Len(s.a) |-> LoadRow(s.a[i])]],
                    FALSE, Len(s.a), <<>>)

engine_execute_applied(w, s, fail) ==
    LET w1 == [w EXCEPT !.n = @ + 1, !.issued = @ + 1,
                        !.creates = IF s.kind = "CREATE" THEN @ + 1 ELSE @]
    IN Once(Exec(w.db, s), LAMBDA r :
        IF r.err THEN Raise(w1, "DatabaseError")
        ELSE IF w1.n = fail THEN Raise([w1 EXCEPT !.db = r.db], "DatabaseError")
        ELSE Res([w1 EXCEPT !.db = r.db,
                            !.insertsDone = IF s.kind = "INSERT" THEN @ + 1 ELSE @],
                 Ok, r.rowcount, r.rows))

\* cls.engine.execute(sql): the fail-th call to the engine in this gateway call
\* fails in the engine (connection lost, lock timeout, ...): a DatabaseError.
engine_execute(w, s, fail) ==
    LET w1 == [w EXCEPT !.n = @ + 1, !.issued = @ + 1,
                        !.creates = IF s.kind = "CREATE" THEN @ + 1 ELSE @]
    IN Once(Exec(w.db, s), LAMBDA r :
        IF w1.n = fail \/ r.err
        THEN Raise(w1, "DatabaseError")
        ELSE Res([w1 EXCEPT !.db = r.db,
                            !.insertsDone = IF s.kind = "INSERT" THEN @ + 1 ELSE @],
                 Ok, r.rowcount, r.rows))

----------------------------------------------------------------------------
(* class MySQL *)

create_engine_once(w, conn_string) ==
    IF w.engine.set THEN w
    ELSE [w EXCEPT !.engine = [set |-> TRUE, url |-> conn_string.toks, id |-> w.created + 1],
                   !.created = @ + 1]

\* create_engine(conn_string): the handle remembers its URL; id tells one
\* created handle from the next.
create_engine(w, conn_string) ==
    [w EXCEPT !.engine = [set |-> TRUE, url |-> conn_string.toks, id |-> w.created + 1],
              !.created = @ + 1]

\* Lines 35-51: parse the descriptor, check the connector, create the engine.
\* engineFails: create_engine itself raises (driver not importable, bad URL).
connect_body(w, conn_string, engineFails) ==
    IF ~(conn_string.isStr /\ conn_string.toks # <<>>)
    THEN Raise(w, "TypeError(conn_string)")
    ELSE LET p1 == Split(conn_string.toks, "://") IN
         IF Len(p1) # 2 THEN Raise(w, "ValueError")
         ELSE LET p2 == Split(p1[2], ":") IN
         IF Len(p2) # 3 THEN Raise(w, "ValueError")
         ELSE LET p3 == Split(p2[3], "/")
                  p4 == Split(p2[2], "@") IN
         IF Len(p3) # 2 \/ Len(p4) # 2 THEN Raise(w, "ValueError")
         ELSE IF p1[1] # <<"mysql+mysqlconnector">>
         THEN Raise(w, "NotImplementedError")
         ELSE IF engineFails THEN Raise(w, "EngineError")
         ELSE Return([create_engine(w, conn_string) EXCEPT !.connected = TRUE], 0)

must_connect_always(flag) == TRUE

\* Line 34: if cls.connected == False
must_connect(flag) == flag = FALSE

_connect(w, conn_string, engineFails) ==
    IF must_connect(w.connected)
    THEN connect_body(w, conn_string, engineFails)
    ELSE Return(w, 0)

\* The errors the spec calls ConfigurationError
ConfigurationErrors == {"TypeError(conn_string)", "ValueError", "NotImplementedError"}

\* cls.engine.dialect.has_table(cls.engine, table): a query to the engine
has_table(w, fail) ==
    LET w1 == [w EXCEPT !.n = @ + 1]
    IN IF w1.n = fail THEN Raise(w1, "DatabaseError")
       ELSE Res([w1 EXCEPT !.checked = IF w.db.exists THEN "present" ELSE "missing"],
                Ok, IF w.db.exists THEN 1 ELSE 0, <<>>)

check_for_table(w, table, conn_string, engineFails, fail) ==
    Then(_connect(w, conn_string, engineFails), LAMBDA c : has_table(c.w, fail))

\* Lines 66-72: the CREATE TABLE statement
create_sql(table) ==
    IF IsDataFrame(table)
    THEN Stmt("CREATE", table.name,
              [i \in 1..Len(Columns) |-> <<Columns[i], conversion_map[dtype(Columns[i])]>>],
              <<>>, Len(Columns) > 0)
    ELSE Stmt("CREATE", "", <<>>, <<>>, FALSE)

create(w, table, conn_string, engineFails, fail) ==
    Then(_connect(w, conn_string, engineFails), LAMBDA c :
         engine_execute(c.w, create_sql(table), fail))

\* conditions: a str (preds has at most one predicate, none for '') or a list of
\* predicates; a predicate is <<label, literal>>, the text "label=literal".
Conditions(kind, preds) == [kind |-> kind, preds |-> preds]
NoConditions == Conditions("str", <<>>)

\* Lines 96-114: the SELECT statement; a list of conditions is joined by commas
select_sql(table, conditions) ==
    Stmt("SELECT", table.name,
         IF IsStr(table) THEN <<"*">> ELSE Columns,
         conditions.preds,
         (IsStr(table) \/ Len(Columns) > 0) /\ Len(conditions.preds) <= 1)

\* Lines 118-119: DataFrame(rts.fetchall()); df.columns = rts.keys()
\* An empty list makes a frame without columns, and naming them raises.
frame_of_result(w, r) ==
    IF Len(r.rows) = 0 THEN Raise(w, "ValueError(columns)")
    ELSE Res(w, Ok, 0, r.rows)

select(w, table, conn_string, conditions, engineFails, fail) ==
    Then(_connect(w, conn_string, engineFails), LAMBDA c :
         IF ~(IsStr(table) \/ IsDataFrame(table)) THEN Raise(c.w, "TypeError(table)")
         ELSE Then(engine_execute(c.w, select_sql(table, conditions), fail),
                   LAMBDA r : frame_of_result(r.w, r)))

needs_create_always(exists) == TRUE

\* Line 147 and line 255: if not cls.check_for_table(table.name)
needs_create(exists) == ~exists

\* Lines 147-148 and 255-256: create the table when it is missing
ensure_table(w, table, fail) ==
    Then(check_for_table(w, table, DescEmpty, FALSE, fail), LAMBDA h :
         IF needs_create(h.ret = 1)
         THEN create(h.w, table, DescEmpty, FALSE, fail)
         ELSE h)

\* rows: None, or the list of index labels to insert
RowSel(given, idx) == [given |-> given, idx |-> idx]
AllRows == RowSel(FALSE, {})

\* Lines 150-167: the INSERT statement of one row
insert_sql(table, row) ==
    Stmt("INSERT", table.name,
         [i \in 1..Len(Columns) |-> <<Columns[i], FormatValue(row[Columns[i]])>>],
         <<>>, Len(Columns) > 0)

\* Lines 158-173: the loop over table.iterrows(); i is the position, the index
\* label is i - 1
RECURSIVE insert_loop(_, _, _, _, _, _)
insert_loop(w, table, rows, i, rows_matched, fail) ==
    IF i > Len(table.rows) THEN Return(w, rows_matched)
    ELSE IF ~rows.given \/ (i - 1) \in rows.idx
    THEN Then(engine_execute(w, insert_sql(table, table.rows[i]), fail), LAMBDA r :
              insert_loop(r.w, table, rows, i + 1, rows_matched + r.ret, fail))
    ELSE insert_loop(w, table, rows, i + 1, rows_matched, fail)

insert(w, table, conn_string, rows, engineFails, fail) ==
    Then(_connect(w, conn_string, engineFails), LAMBDA c :
         IF ~IsDataFrame(table) THEN Raise(c.w, "TypeError(table)")
         ELSE Then(ensure_table(c.w, table, fail), LAMBDA e :
                   insert_loop(e.w, table, rows, 1, 0, fail)))

\* index: None, or the list of key labels
Index(isList, labels) == [isList |-> isList, labels |-> labels]
NoIndex == Index(FALSE, {})

\* <<label, literal>> of the columns of row that satisfy keep
Pairs(row, keep(_)) ==
    LET labs == SelectSeq(Columns, keep)
    IN [i \in 1..Len(labs) |-> <<labs[i], FormatValue(row[labs[i]])>>]

\* Lines 202-219: the UPDATE statement of one row: labels not in index are
\* assigned, labels in index are compared; no assignment leaves "UPDATE t SET"
update_sql(table, row, index) ==
    LET sets == Pairs(row, LAMBDA l : l \notin index.labels)
        conds == Pairs(row, LAMBDA l : l \in index.labels)
    IN Stmt("UPDATE", table.name, sets, conds, Len(sets) > 0)

\* Lines 201-224: the loop over table.values
RECURSIVE update_loop(_, _, _, _, _, _)
update_loop(w, table, index, i, rows_matched, fail) ==
    IF i > Len(table.rows) THEN Return(w, rows_matched)
    ELSE Then(engine_execute(w, update_sql(table, table.rows[i], index), fail), LAMBDA r :
              update_loop(r.w, table, index, i + 1, rows_matched + r.ret, fail))

update(w, table, conn_string, index, engineFails, fail) ==
    Then(_connect(w, conn_string, engineFails), LAMBDA c :
         IF ~IsDataFrame(table) THEN Raise(c.w, "TypeError(table)")
         ELSE IF ~index.isList THEN Return(c.w, 0)
         ELSE update_loop(c.w, table, index, 1, 0, fail))

\* table.to_csv(csv_path, sep=';', header=False, index=False): one line per
\* row, the fields written as text
to_csv(table) ==
    [i \in 1..Len(table.rows) |->
        <<ToStr(table.rows[i].id), ToStr(table.rows[i].name)>>]

stage_csv_early(w, table) ==
    IF IsDataFrame(table)
    THEN Return([w EXCEPT !.csv = TRUE, !.staged = TRUE], 0)
    ELSE Raise([w EXCEPT !.csv = TRUE, !.staged = TRUE], "TypeError(table)")

\* Lines 250-253: stage the rows, or refuse what is not a DataFrame
stage_csv(w, table) ==
    IF IsDataFrame(table)
    THEN Return([w EXCEPT !.csv = TRUE, !.staged = TRUE], 0)
    ELSE Raise(w, "TypeError(table)")

\* Lines 258-259
load_sql(table) == Stmt("LOAD", table.name, to_csv(table), <<>>, TRUE)

\* Line 266: os.remove(csv_path)
os_remove(w) == [w EXCEPT !.csv = FALSE]

bulk_insert(w, table, conn_string, engineFails, fail) ==
    Then(_connect(w, conn_string, engineFails), LAMBDA c :
    Then(stage_csv(c.w, table), LAMBDA s :
    Then(ensure_table(s.w, table, fail), LAMBDA e :
    Then(engine_execute(e.w, load_sql(table), fail), LAMBDA r :
         Return(os_remove(r.w), r.ret)))))

\* Lines 286-289: only a non-empty str of conditions becomes a WHERE clause
delete_sql(table, conditions) ==
    Stmt("DELETE", table.name, <<>>,
         IF conditions.kind = "str" THEN conditions.preds ELSE <<>>,
         IsStr(table))

delete(w, table, conn_string, conditions, engineFails, fail) ==
    Then(_connect(w, conn_string, engineFails), LAMBDA c :
         engine_execute(c.w, delete_sql(table, conditions), fail))

----------------------------------------------------------------------------
(* class Oracle: get_table, execute, drop *)

\* self.schema = user.upper(), the user of the tests
self_schema == "TEST"

Schemas == {"", "TEST", "SYS"}

\* The one table name used; it may exist only in the instance's own schema.
\* ora is -1 when the table is absent, else the number of its rows.
TableExists(o, schema) == schema = self_schema /\ o >= 0

\* Lines 82-85: schema if schema else self.schema; reflection of a missing
\* table raises NoSuchTableError
get_table(o, schema) ==
    LET sch == IF schema # "" THEN schema ELSE self_schema
    IN IF TableExists(o, sch) THEN Ok ELSE "NoSuchTableError"

\* Lines 125-129: reflect the table, then drop it if it is there
drop(o, schema) ==
    LET sch == IF schema = "" THEN self_schema ELSE schema
        t == get_table(o, sch)
    IN IF t # Ok THEN [ora |-> o, exc |-> t]
       ELSE [ora |-> IF TableExists(o, sch) THEN -1 ELSE o, exc |-> Ok]

\* The statements handed to execute, all on the table of the own schema
SqlKinds == {"CREATE", "INSERT", "SELECT"}

\* Where the engine fails during one execute call
FailPoints == {"none", "connect", "begin", "execute", "bind", "commit", "fetch"}

\* What the statement does in the engine when executed: the error it meets,
\* and the table afterwards.  DDL takes effect at once; the row of an INSERT
\* is pending until the commit.
StatementFails(o, sql) ==
    IF sql = "CREATE" THEN o >= 0 ELSE o < 0

AfterExecute(o, sql) == IF sql = "CREATE" THEN 0 ELSE o
AfterCommit(o, sql) == IF sql = "INSERT" THEN o + 1 ELSE o

ExecuteResult(o, open, exc, commits, logged, acquired, released, nrows) ==
    [ora |-> o, open |-> open, exc |-> exc, commits |-> commits, logged |-> logged,
     acquired |-> acquired, released |-> released, nrows |-> nrows]

\* Lines 97-113.  o: the table, open: connections not released.
execute(o, open, sql, failAt) ==
    \* connection = self.engine.connect()
    IF failAt = "connect"
    THEN ExecuteResult(o, open, "DatabaseError", 0, FALSE, FALSE, FALSE, 0)
    \* trans = connection.begin(), before the try
    ELSE IF failAt = "begin"
    THEN ExecuteResult(o, open + 1, "DatabaseError", 0, FALSE, TRUE, FALSE, 0)
    \* result = connection.execute(text(sql), **kwargs): a parameter that does
    \* not bind is no DatabaseError; finally closes
    ELSE IF failAt = "bind"
    THEN ExecuteResult(o, open, "StatementError", 0, FALSE, TRUE, TRUE, 0)
    ELSE IF failAt = "execute" \/ StatementFails(o, sql)
    THEN ExecuteResult(o, open, "DatabaseError", 0, TRUE, TRUE, TRUE, 0)
    \* trans.commit()
    ELSE IF failAt = "commit"
    THEN ExecuteResult(AfterExecute(o, sql), open, "DatabaseError", 0, TRUE, TRUE, TRUE, 0)
    ELSE LET o2 == AfterCommit(AfterExecute(o, sql), sql)
         IN \* if result.returns_rows: fetchall(), then name the columns
            IF sql # "SELECT"
            THEN ExecuteResult(o2, open, Ok, 1, FALSE, TRUE, TRUE, 0)
            ELSE IF failAt = "fetch"
            THEN ExecuteResult(o2, open, "DatabaseError", 1, TRUE, TRUE, TRUE, 0)
            ELSE IF o2 = 0
            THEN ExecuteResult(o2, open, "ValueError(columns)", 1, FALSE, TRUE, TRUE, 0)
            ELSE ExecuteResult(o2, open, Ok, 1, FALSE, TRUE, TRUE, o2)

----------------------------------------------------------------------------
(* Oracle.load_data and the sqlldr subprocess it launches *)

Modes == {"APPEND", "REPLACE", "TRUNCATE"}

\* Files under output_path: the control file holds the mode ("" when the file
\* is absent), the data file its number of rows (-1 when absent).
NoFiles == [ctl |-> "", dat |-> -1, log |-> FALSE, bad |-> FALSE]

\* How subprocess.Popen(args, env=env) ends: the child runs, the executable is
\* not found on env['PATH'] (FileNotFoundError, an OSError), or Popen raises a
\* SubprocessError
Launches == {"ok", "FileNotFoundError", "SubprocessError"}

\* Lines 174-202: the control file and the data file
write_files(f, nrows, mode) == [f EXCEPT !.ctl = mode, !.dat = nrows]

\* Lines 216-219: only SubprocessError is caught, and logged
load_data_outcome(launch) ==
    IF launch = "SubprocessError" THEN [exc |-> Ok, logged |-> TRUE]
    ELSE IF launch = "ok" THEN [exc |-> Ok, logged |-> FALSE]
    ELSE [exc |-> launch, logged |-> FALSE]

\* What sqlldr does with the files once it has opened its log
LoaderResult(o, f) ==
    IF o < 0 \/ f.ctl = "" \/ f.dat < 0 THEN o
    ELSE IF f.ctl = "APPEND" THEN o + f.dat ELSE f.dat

----------------------------------------------------------------------------
(* Generic Gateway calls as actions *)

\* The class state and its surroundings when a call starts
Now == World(connected, engine, created, db, csv)

NoCall ==
    [op |-> "none", table |-> OtherTable, desc |-> DescEmpty, rowsel |-> AllRows,
     index |-> NoIndex, conds |-> NoConditions, exc |-> Ok, ret |-> 0,
     result |-> <<>>, issued |-> 0, creates |-> 0, insertsDone |-> 0,
     engineCalls |-> 0, staged |-> FALSE, checked |-> "no",
     wasConnected |-> FALSE, existed |-> FALSE, wasEmpty |-> TRUE]

CallRecord(op, table, desc, rowsel, index, conds, r) ==
    [op |-> op, table |-> table, desc |-> desc, rowsel |-> rowsel,
     index |-> index, conds |-> conds, exc |-> r.exc, ret |-> r.ret,
     result |-> r.rows, issued |-> r.w.issued, creates |-> r.w.creates,
     insertsDone |-> r.w.insertsDone, engineCalls |-> r.w.n,
     staged |-> r.w.staged,
     checked |-> r.w.checked, wasConnected |-> connected,
     existed |-> db.exists, wasEmpty |-> db.rows = <<>>]

\* The failure inputs of a call are those that happen in it: the engine call
\* numbered fail is made, and create_engine is reached when it is to fail.
Happens(r, engineFails, fail) ==
    /\ fail = 0 \/ (fail <= r.w.n /\ r.exc = "DatabaseError")
    /\ engineFails => r.exc = "EngineError"
    /\ Len(r.w.db.rows) <= MaxDbRows

Finish(r, rec) ==
    /\ connected' = r.w.connected
    /\ engine' = r.w.engine
    /\ created' = r.w.created
    /\ db' = r.w.db
    /\ csv' = r.w.csv
    /\ call' = rec
    /\ UNCHANGED threads
    /\ UNCHANGED oracleVars

\* create_engine is reached only while disconnected
EngineFailures(Es) == IF connected THEN {FALSE} ELSE Es

CreateCall(Ds, Ts, Es, Fs) ==
    \E cs \in Ds, table \in Ts, ef \in EngineFailures(Es), fail \in Fs :
        \E r \in {create(Now, table, cs, ef, fail)} :
           /\ Happens(r, ef, fail)
           /\ Finish(r, CallRecord("create", table, cs, AllRows, NoIndex, NoConditions, r))
           /\ UNCHANGED inserts

SelectCall(Ds, Ts, Cs, Es, Fs) ==
    \E cs \in Ds, table \in Ts, conditions \in Cs, ef \in EngineFailures(Es), fail \in Fs :
        \E r \in {select(Now, table, cs, conditions, ef, fail)} :
           /\ Happens(r, ef, fail)
           /\ Finish(r, CallRecord("select", table, cs, AllRows, NoIndex, conditions, r))
           /\ UNCHANGED inserts

InsertCall(Ds, Ts, Rs, Es, Fs) ==
    \E cs \in Ds, table \in Ts, rows \in Rs, ef \in EngineFailures(Es), fail \in Fs :
        \E r \in {insert(Now, table, cs, rows, ef, fail)} :
           /\ Happens(r, ef, fail)
           /\ inserts.issued + r.w.creates <= MaxCreates
           /\ Finish(r, CallRecord("insert", table, cs, rows, NoIndex, NoConditions, r))
           /\ inserts' = [issued |-> inserts.issued + r.w.creates,
                          succeeded |-> inserts.succeeded +
                              (IF r.w.creates > 0 /\ r.w.db.exists THEN 1 ELSE 0)]

UpdateCall(Ds, Ts, Is, Es, Fs) ==
    \E cs \in Ds, table \in Ts, index \in Is, ef \in EngineFailures(Es), fail \in Fs :
        \E r \in {update(Now, table, cs, index, ef, fail)} :
           /\ Happens(r, ef, fail)
           /\ Finish(r, CallRecord("update", table, cs, AllRows, index, NoConditions, r))
           /\ UNCHANGED inserts

BulkInsertCall(Ds, Ts, Es, Fs) ==
    \E cs \in Ds, table \in Ts, ef \in EngineFailures(Es), fail \in Fs :
        \E r \in {bulk_insert(Now, table, cs, ef, fail)} :
           /\ Happens(r, ef, fail)
           /\ Finish(r, CallRecord("bulk_insert", table, cs, AllRows, NoIndex, NoConditions, r))
           /\ UNCHANGED inserts

DeleteCall(Ds, Ts, Cs, Es, Fs) ==
    \E cs \in Ds, table \in Ts, conditions \in Cs, ef \in EngineFailures(Es), fail \in Fs :
        \E r \in {delete(Now, table, cs, conditions, ef, fail)} :
           /\ Happens(r, ef, fail)
           /\ Finish(r, CallRecord("delete", table, cs, AllRows, NoIndex, conditions, r))
           /\ UNCHANGED inserts

CheckForTableCall(Ds, Ts, Es, Fs) ==
    \E cs \in Ds, table \in Ts, ef \in EngineFailures(Es), fail \in Fs :
        \E r \in {check_for_table(Now, table, cs, ef, fail)} :
           /\ Happens(r, ef, fail)
           /\ Finish(r, CallRecord("check_for_table", table, cs, AllRows, NoIndex, NoConditions, r))
           /\ UNCHANGED inserts

----------------------------------------------------------------------------
(* Schema-Aware Gateway calls as actions *)

NoOCall ==
    [op |-> "none", arg |-> "", exc |-> Ok, commits |-> 0, logged |-> FALSE,
     acquired |-> FALSE, released |-> FALSE, nrows |-> 0, existed |-> FALSE,
     files |-> NoFiles, launch |-> "none"]

OCallRecord(op, arg, exc, commits, logged, acquired, released, nrows, files) ==
    [op |-> op, arg |-> arg, exc |-> exc, commits |-> commits, logged |-> logged,
     acquired |-> acquired, released |-> released, nrows |-> nrows,
     existed |-> ora >= 0, files |-> files, launch |-> "none"]

Idle == ldpc = "idle"

Execute ==
    /\ Idle
    /\ \E sql \in SqlKinds, failAt \in FailPoints :
        LET r == execute(ora, oraOpen, sql, failAt)
        IN /\ failAt = "fetch" => (sql = "SELECT" /\ ~StatementFails(ora, sql))
           /\ failAt = "commit" => ~StatementFails(ora, sql)
           /\ r.ora <= MaxOraRows
           /\ r.open <= MaxLeaks
           /\ ora' = r.ora
           /\ oraOpen' = r.open
           /\ ocall' = OCallRecord("execute", sql, r.exc, r.commits, r.logged,
                                   r.acquired, r.released, r.nrows, fs)
    /\ UNCHANGED <<fs, proc, ldpc>>
    /\ UNCHANGED mysqlVars

GetTable ==
    /\ Idle
    /\ \E schema \in Schemas :
        ocall' = OCallRecord("get_table", schema, get_table(ora, schema),
                             0, FALSE, FALSE, FALSE, 0, fs)
    /\ UNCHANGED <<ora, oraOpen, fs, proc, ldpc>>
    /\ UNCHANGED mysqlVars

Drop ==
    /\ Idle
    /\ \E schema \in Schemas :
        LET r == drop(ora, schema)
        IN /\ ora' = r.ora
           /\ ocall' = OCallRecord("drop", schema, r.exc, 0, FALSE, FALSE, FALSE, 0, fs)
    /\ UNCHANGED <<oraOpen, fs, proc, ldpc>>
    /\ UNCHANGED mysqlVars

\* load_data up to and including subprocess.Popen; outputOk: output_path is a
\* directory the files can be written in
LoadDataLaunch ==
    /\ Idle
    /\ \E nrows \in 0..MaxLoadRows, mode \in Modes, outputOk \in BOOLEAN, launch \in Launches :
        IF ~outputOk
        THEN /\ launch = "ok"
             /\ ocall' = OCallRecord("load_data", mode, "FileNotFoundError",
                                     0, FALSE, FALSE, FALSE, 0, fs)
             /\ UNCHANGED <<fs, proc, ldpc>>
        ELSE /\ fs' = write_files(fs, nrows, mode)
             /\ IF launch = "ok"
                THEN /\ Len(proc) < MaxProcs
                     /\ proc' = Append(proc, "running")
                     /\ ldpc' = "launched"
                     /\ ocall' = [OCallRecord("load_data", mode, "running",
                                              0, FALSE, FALSE, FALSE, 0, fs')
                                  EXCEPT !.launch = launch]
                ELSE /\ ocall' = [OCallRecord("load_data", mode,
                                              load_data_outcome(launch).exc, 0,
                                              load_data_outcome(launch).logged,
                                              FALSE, FALSE, 0, fs')
                                  EXCEPT !.launch = launch]
                     /\ UNCHANGED <<proc, ldpc>>
    /\ UNCHANGED <<ora, oraOpen>>
    /\ UNCHANGED mysqlVars

\* load_data returns to its caller: it neither waits for the child nor looks
\* at it
LoadDataReturn ==
    /\ ldpc = "launched"
    /\ ldpc' = "idle"
    /\ ocall' = [ocall EXCEPT !.exc = load_data_outcome("ok").exc, !.files = fs]
    /\ UNCHANGED <<ora, oraOpen, fs, proc>>
    /\ UNCHANGED mysqlVars

\* sqlldr opens its log file
LoaderOpensLog ==
    /\ \E i \in 1..Len(proc) :
        /\ proc[i] = "running"
        /\ proc' = [proc EXCEPT ![i] = "logged"]
    /\ fs' = [fs EXCEPT !.log = TRUE]
    /\ UNCHANGED <<ora, oraOpen, ocall, ldpc>>
    /\ UNCHANGED mysqlVars

\* sqlldr ends before it has opened a log (a shared library is not found on the
\* overridden LD_LIBRARY_PATH)
LoaderDies ==
    /\ \E i \in 1..Len(proc) :
        /\ proc[i] = "running"
        /\ proc' = SubSeq(proc, 1, i - 1) \o SubSeq(proc, i + 1, Len(proc))
    /\ UNCHANGED <<ora, oraOpen, ocall, fs, ldpc>>
    /\ UNCHANGED mysqlVars

\* sqlldr loads the data file as the control file says, and ends
LoaderLoads ==
    /\ \E i \in 1..Len(proc) :
        /\ proc[i] = "logged"
        /\ proc' = SubSeq(proc, 1, i - 1) \o SubSeq(proc, i + 1, Len(proc))
    /\ LoaderResult(ora, fs) <= MaxOraRows
    /\ ora' = LoaderResult(ora, fs)
    /\ fs' = [fs EXCEPT !.bad = @ \/ (ora < 0 /\ fs.dat > 0)]
    /\ UNCHANGED <<oraOpen, ocall, ldpc>>
    /\ UNCHANGED mysqlVars

----------------------------------------------------------------------------
(* Inputs *)

\* Rows of the frames where only the number of rows matters
PlainRows == {Row(1, TextA)}

\* Rows of the frames of the data-centred specification
DataRows == {Row(i, n) : i \in {1, 2}, n \in {TextA, TextQQ}}

Frames(R) == {DataFrame(rows) : rows \in SeqsUpTo(R, MaxRows)}

PlainFrames == Frames(PlainRows)

Tables == PlainFrames \cup {StrTable, OtherTable}

RowSels == {AllRows} \cup {RowSel(TRUE, idx) : idx \in SUBSET (0..(MaxRows - 1))}

Indexes ==
    {NoIndex} \cup
    {Index(TRUE, ls) : ls \in {{}, {"id"}, {"name"}, {"id", "name"}, {"zzz"}, {"id", "zzz"}}}

Pred(label, value) == <<label, FormatValue(value)>>

IdIsOne == Conditions("str", <<Pred("id", PyInt(1))>>)

ConditionSet ==
    {NoConditions, IdIsOne,
     Conditions("list", <<Pred("id", PyInt(1)), Pred("name", PyStr(TextA))>>)}

\* The engine calls one gateway call can make: has_table, CREATE, one per row
MaxFail == MaxRows + 2

Fails == 0..MaxFail

----------------------------------------------------------------------------
(* Specifications *)

\* The threads that share the class MySQL
Callers == 1..NumCallers

\* A caller outside any call.  seen: the value of cls.connected it read at
\* line 34; handle: the value of cls.engine it executed its statement on.
NoThread ==
    [pc |-> "idle", op |-> "none", desc |-> DescEmpty, seen |-> FALSE,
     handle |-> NoEngine, exc |-> Ok]

InitMySQL ==
    /\ threads = [t \in Callers |-> NoThread]
    /\ connected = FALSE
    /\ engine = NoEngine
    /\ created = 0
    /\ db = NoTable
    /\ csv = FALSE
    /\ call = NoCall
    /\ inserts = [issued |-> 0, succeeded |-> 0]

InitOracle ==
    /\ ora = -1
    /\ oraOpen = 0
    /\ ocall = NoOCall
    /\ fs = NoFiles
    /\ proc = <<>>
    /\ ldpc = "idle"

Init == InitMySQL /\ InitOracle

\* The Generic Gateway called sequentially with any descriptor and any shape of
\* table argument.
Create == CreateCall(Descriptors, Tables, BOOLEAN, {0})
Select == SelectCall(Descriptors, Tables, {NoConditions, IdIsOne}, BOOLEAN, {0})
Insert == InsertCall(Descriptors, Tables, {AllRows, RowSel(TRUE, {0})}, BOOLEAN, {0})
Update == UpdateCall(Descriptors, Tables, {NoIndex, Index(TRUE, {"id"})}, BOOLEAN, {0})
BulkInsert == BulkInsertCall(Descriptors, Tables, BOOLEAN, {0})
Delete == DeleteCall(Descriptors, Tables, {NoConditions, IdIsOne}, BOOLEAN, {0})
CheckForTable == CheckForTableCall(Descriptors, Tables, BOOLEAN, {0})

Next == Create \/ Select \/ Insert \/ Update \/ BulkInsert \/ Delete \/ CheckForTable

Spec == Init /\ [][Next]_vars

\* The Generic Gateway called sequentially with a good descriptor (or none once
\* connected), where any call to the engine may fail.
Defaults == {DescA, DescEmpty}

CreateFail == CreateCall(Defaults, PlainFrames, {FALSE}, Fails)
SelectFail == SelectCall(Defaults, {StrTable}, {NoConditions}, {FALSE}, Fails)
InsertFail == InsertCall(Defaults, PlainFrames, {AllRows, RowSel(TRUE, {0})}, {FALSE}, Fails)
UpdateFail == UpdateCall(Defaults, PlainFrames, {Index(TRUE, {"id"})}, {FALSE}, Fails)
BulkInsertFail == BulkInsertCall(Defaults, PlainFrames, {FALSE}, Fails)
DeleteFail == DeleteCall(Defaults, {StrTable}, {NoConditions}, {FALSE}, Fails)

NextFail ==
    CreateFail \/ SelectFail \/ InsertFail \/ UpdateFail \/ BulkInsertFail \/ DeleteFail

SpecFail == Init /\ [][NextFail]_vars

\* The Generic Gateway called sequentially with a good descriptor and frames
\* of varied rows.
DataTables == Frames(DataRows)

SelectData == SelectCall({DescA}, {StrTable} \cup DataTables, {NoConditions}, {FALSE}, {0})
InsertData == InsertCall({DescA}, DataTables, RowSels, {FALSE}, {0})
UpdateData == UpdateCall({DescA}, DataTables, Indexes, {FALSE}, {0})
DeleteData == DeleteCall({DescA}, {StrTable}, {NoConditions, IdIsOne}, {FALSE}, {0})

NextData == SelectData \/ InsertData \/ UpdateData \/ DeleteData

SpecData == Init /\ [][NextData]_vars

\* The Schema-Aware Gateway called sequentially, with the sqlldr subprocesses
\* it has launched running beside the caller.
\* insert and update called sequentially with a good descriptor and frames of
\* varied rows, any one statement of a call failing in the engine.
PartialTables == Frames({Row(1, TextA), Row(1, TextQQ)})

InsertPartial == InsertCall({DescA}, PartialTables, {AllRows, RowSel(TRUE, {1})}, {FALSE}, Fails)
UpdatePartial == UpdateCall({DescA}, PartialTables, {Index(TRUE, {"id"})}, {FALSE}, Fails)

NextPartial == InsertPartial \/ UpdatePartial

SpecPartial == Init /\ [][NextPartial]_vars

----------------------------------------------------------------------------
(* Concurrent callers of the Generic Gateway: one step per shared access *)

line_after_swapped(line) ==
    IF line = "parse" THEN "flag" ELSE IF line = "flag" THEN "engine" ELSE "execute"

\* Lines 35-51 in program order: the descriptor is parsed, cls.engine is
\* assigned (line 50), cls.connected is assigned (line 51), and _connect
\* returns to the statement of the operation
line_after(line) ==
    IF line = "parse" THEN "engine" ELSE IF line = "engine" THEN "flag" ELSE "execute"

\* The statement of the operation: create (lines 66-74), delete (lines 286-291)
race_sql(op) ==
    IF op = "create" THEN create_sql(DataFrame(<<>>)) ELSE delete_sql(StrTable, NoConditions)

\* A caller enters create or delete
RaceCall ==
    /\ \E t \in Callers, op \in {"create", "delete"}, cs \in Defaults :
        /\ threads[t].pc = "idle"
        /\ threads' = [threads EXCEPT ![t] = [NoThread EXCEPT !.pc = "check", !.op = op,
                                                             !.desc = cs]]
    /\ UNCHANGED <<connected, engine, created, db, csv, call, inserts>>
    /\ UNCHANGED oracleVars

\* Line 34: the caller reads cls.connected
RaceReadFlag ==
    /\ \E t \in Callers :
        /\ threads[t].pc = "check"
        /\ threads' = [threads EXCEPT ![t].seen = connected,
                                      ![t].pc = IF must_connect(connected)
                                                THEN "parse" ELSE "execute"]
    /\ UNCHANGED <<connected, engine, created, db, csv, call, inserts>>
    /\ UNCHANGED oracleVars

\* Lines 35-44: the caller parses its descriptor, and raises on a bad one
RaceParse ==
    /\ \E t \in Callers :
        /\ threads[t].pc = "parse"
        /\ \E r \in {connect_body(Now, threads[t].desc, FALSE)} :
            threads' = IF r.exc # Ok
                       THEN [threads EXCEPT ![t].pc = "raised", ![t].exc = r.exc]
                       ELSE [threads EXCEPT ![t].pc = line_after("parse")]
    /\ UNCHANGED <<connected, engine, created, db, csv, call, inserts>>
    /\ UNCHANGED oracleVars

\* Line 50: cls.engine = create_engine(conn_string)
RaceSetEngine ==
    /\ \E t \in Callers :
        /\ threads[t].pc = "engine"
        /\ \E w \in {create_engine(Now, threads[t].desc)} :
            /\ engine' = w.engine
            /\ created' = w.created
        /\ threads' = [threads EXCEPT ![t].pc = line_after("engine")]
    /\ UNCHANGED <<connected, db, csv, call, inserts>>
    /\ UNCHANGED oracleVars

\* Line 51: cls.connected = True
RaceSetFlag ==
    /\ \E t \in Callers :
        /\ threads[t].pc = "flag"
        /\ threads' = [threads EXCEPT ![t].pc = line_after("flag")]
    /\ connected' = TRUE
    /\ UNCHANGED <<engine, created, db, csv, call, inserts>>
    /\ UNCHANGED oracleVars

\* Lines 74 and 291: cls.engine.execute(sql) on the handle the class holds
\* now; None has no attribute execute
RaceExecute ==
    /\ \E t \in Callers :
        /\ threads[t].pc = "execute"
        /\ IF ~engine.set
           THEN /\ threads' = [threads EXCEPT ![t].pc = "raised", ![t].handle = engine,
                                              ![t].exc = "AttributeError"]
                /\ UNCHANGED db
           ELSE \E r \in {engine_execute(Now, race_sql(threads[t].op), 0)} :
                /\ db' = r.w.db
                /\ threads' = [threads EXCEPT ![t].pc = IF r.exc = Ok THEN "done" ELSE "raised",
                                              ![t].handle = engine,
                                              ![t].exc = r.exc]
    /\ UNCHANGED <<connected, engine, created, csv, call, inserts>>
    /\ UNCHANGED oracleVars

\* The call ends, and the caller may call again
RaceReturn ==
    /\ \E t \in Callers :
        /\ threads[t].pc \in {"done", "raised"}
        /\ threads' = [threads EXCEPT ![t].pc = "idle"]
    /\ UNCHANGED <<connected, engine, created, db, csv, call, inserts>>
    /\ UNCHANGED oracleVars

NextRace ==
    \/ RaceCall \/ RaceReadFlag \/ RaceParse \/ RaceSetEngine \/ RaceSetFlag
    \/ RaceExecute \/ RaceReturn

SpecRace == Init /\ [][NextRace]_vars

NextOracle ==
    \/ Execute \/ GetTable \/ Drop
    \/ LoadDataLaunch \/ LoadDataReturn
    \/ LoaderOpensLog \/ LoaderDies \/ LoaderLoads

SpecOracle == Init /\ [][NextOracle]_vars

----------------------------------------------------------------------------
(* Properties of the Generic Gateway *)

\* C1: connect is idempotent in a sequential run: the engine handle is created
\* by the first call that connects, and no later call, whatever descriptor it
\* passes, creates another or replaces it; Disconnected -> Connected happens
\* once and never back.
C1_ConnectOnce ==
    [][/\ connected => (connected' /\ engine' = engine /\ created' = created)
       /\ (~connected /\ connected') => (engine'.set /\ created' = 1)
       /\ ~connected' => (engine' = NoEngine /\ created' = 0)]_vars

\* A call made while connected, with another descriptor than the handle's, has
\* returned normally and the first handle is still there.
C1_Witness ==
    /\ connected /\ call.wasConnected /\ call.exc = Ok
    /\ call.desc \in {DescB, DescPg, DescNoScheme, DescNone}
    /\ engine.id = 1 /\ engine.url = DescA.toks

\* C9: a call that fails with a ConfigurationError, or a select, insert, update
\* or bulk_insert that fails on the shape of its table argument, has made no
\* call to the engine and has staged no file; after a ConfigurationError the
\* gateway is still disconnected, without engine handle.
C9_FailFast ==
    /\ call.exc \in ConfigurationErrors =>
          /\ call.issued = 0 /\ call.engineCalls = 0 /\ ~call.staged
          /\ ~connected /\ engine = NoEngine
    /\ (call.exc = "TypeError(table)"
        /\ call.op \in {"select", "insert", "update", "bulk_insert"}) =>
          (call.issued = 0 /\ call.engineCalls = 0 /\ ~call.staged)

C9_Witness ==
    /\ call.op = "bulk_insert" /\ call.exc = "TypeError(table)"
    /\ connected /\ ~csv

\* C4: when a bulk_insert call that staged its file has ended, the staging
\* file no longer exists, however the call ended.
C4_StagingFileRemoved ==
    (call.op = "bulk_insert" /\ call.staged) => ~csv

\* C5 as stated: over the insert calls, createTable is issued at most once,
\* and never by an insert on a table that exists.
C5_CreateAtMostOnce ==
    /\ inserts.issued <= 1
    /\ (call.op = "insert" /\ call.existed) => call.creates = 0

\* C5, amended: an insert issues createTable exactly when tableExists reports
\* the table missing; an insert on a table that exists issues none; at most
\* one createTable of the insert calls succeeds, and after it no insert issues
\* another (a createTable that failed is issued again by the next insert).
C5_CreateWhenMissing ==
    /\ [](/\ call.op = "insert" =>
               call.creates = (IF call.checked = "missing" THEN 1 ELSE 0)
          /\ (call.op = "insert" /\ call.existed) => call.creates = 0
          /\ inserts.succeeded <= 1
          /\ inserts.succeeded = 1 => db.exists)
    /\ [][inserts.succeeded = 1 => inserts'.issued = inserts.issued]_vars

\* A createTable that failed was issued again and succeeded, and the insert
\* after that found the table and issued none.
C5_Witness ==
    /\ inserts.issued = 2 /\ inserts.succeeded = 1
    /\ call.op = "insert" /\ call.existed /\ call.creates = 0 /\ call.exc = Ok
    /\ call.insertsDone > 0

\* The rows of table that insert selects
Selected(table, rowsel) ==
    LET keep == {i \in 1..Len(table.rows) : ~rowsel.given \/ (i - 1) \in rowsel.idx}
        n == Cardinality(keep)
        at[k \in 0..n] ==
            IF k = 0 THEN 0 ELSE CHOOSE i \in keep : i > at[k - 1] /\ \A j \in keep : j > at[k - 1] => i <= j
    IN [k \in 1..n |-> table.rows[at[k]]]

\* C6: an insert into an empty or missing table executes one INSERT per
\* selected row and returns their number, and a select without conditions that
\* follows returns exactly the selected rows.
C6_InsertThenSelect ==
    /\ []((call.op = "insert" /\ call.wasEmpty) =>
            LET sel == Selected(call.table, call.rowsel)
            IN call.exc = Ok /\ call.insertsDone = Len(sel) /\ call.ret = Len(sel))
    /\ [][(/\ call.op = "insert" /\ call.wasEmpty /\ call.exc = Ok
           /\ call'.op = "select" /\ call'.conds = NoConditions) =>
              (call'.exc = Ok /\ call'.result = Selected(call.table, call.rowsel))]_vars

\* A row of the database matches a row of the frame on the key columns
KeyMatch(dbrow, row, labels) ==
    \A k \in labels : k \in {Columns[i] : i \in 1..Len(Columns)} /\ dbrow[k] = row[k]

\* C7: an update leaves unchanged every database row that matches no row of
\* the frame on the key columns, whatever the key columns.
C7_UpdateFrame ==
    [][call'.op = "update" =>
          /\ Len(db'.rows) = Len(db.rows)
          /\ \A i \in 1..Len(db.rows) :
                (\A j \in 1..Len(call'.table.rows) :
                    ~KeyMatch(db.rows[i], call'.table.rows[j], call'.index.labels))
                => db'.rows[i] = db.rows[i]]_vars

----------------------------------------------------------------------------
(* Properties of the Schema-Aware Gateway *)

\* C2: execute commits exactly once when it returns normally, and has not
\* committed when it raises a database error.
C2_CommitOnceOrNever ==
    ocall.op = "execute" =>
        /\ ocall.exc = Ok => ocall.commits = 1
        /\ ocall.exc = "DatabaseError" => ocall.commits = 0

\* C3: every connection an execute call acquired is released when the call
\* ends.
C3_ConnectionReleased ==
    /\ oraOpen = 0
    /\ (ocall.op = "execute" /\ ocall.acquired) => ocall.released

\* C8: after drop the table is absent and no error was raised, whether or not
\* the table existed.
C8_DropNoError ==
    ocall.op = "drop" => (ocall.exc = Ok /\ ~TableExists(ora, self_schema))

\* C10: when a load_data call that launched the loader returns, the control
\* file, the data file and the loader's log file exist.
C10_FilesExistAtReturn ==
    (ocall.op = "load_data" /\ ocall.exc = Ok /\ ~ocall.logged) =>
        (ocall.files.ctl # "" /\ ocall.files.dat >= 0 /\ ocall.files.log)

\* C11: a load_data call whose loader could not be launched (the executable is
\* not found, or Popen raises a SubprocessError) logs the failure and returns
\* normally, and a call whose loader was launched logs nothing.
C11_LaunchFailureCaught ==
    /\ (ocall.op = "load_data" /\ ocall.launch \in Launches \ {"ok"}) =>
          (ocall.exc = Ok /\ ocall.logged)
    /\ (ocall.op = "load_data" /\ ocall.launch = "ok") => ~ocall.logged

----------------------------------------------------------------------------
(* Row-by-row statements of the Generic Gateway *)

\* The frame of the first k of the rows given
FirstRows(rows, k) == DataFrame(SubSeq(rows, 1, k))

\* C12: when the statement of the k-th processed row of an insert or an update
\* fails, the database is as the statements of the k - 1 rows before it left
\* it, the failing statement is the last one issued, and the call raises the
\* error and returns no row count.
C12_PartialEffects ==
    [][/\ (/\ call'.op = "insert" /\ call'.exc = "DatabaseError"
            /\ call'.checked # "no" /\ db'.exists) =>
              LET sel == Selected(call'.table, call'.rowsel)
                  k == call'.insertsDone + 1
              IN /\ k <= Len(sel)
                 /\ call'.issued = call'.creates + k
                 /\ call'.ret = 0
                 /\ db' = insert(Now, FirstRows(sel, k - 1), call'.desc,
                                 AllRows, FALSE, 0).w.db
       /\ (call'.op = "update" /\ call'.exc = "DatabaseError") =>
              LET k == call'.issued
              IN /\ k >= 1 /\ k <= Len(call'.table.rows)
                 /\ call'.ret = 0
                 /\ db' = update(Now, FirstRows(call'.table.rows, k - 1), call'.desc,
                                 call'.index, FALSE, 0).w.db]_vars

\* The second row's INSERT failed after the first row's INSERT had put its
\* row in the empty table.
C12_Witness ==
    /\ call.op = "insert" /\ call.exc = "DatabaseError"
    /\ call.insertsDone = 1 /\ call.issued = call.creates + 2
    /\ call.wasEmpty /\ Len(db.rows) = 1

----------------------------------------------------------------------------
(* Properties of the Generic Gateway under concurrent callers *)

\* C13: every caller that read the connected flag as false creates an engine
\* handle of its own when it reaches line 50, and that handle replaces the one
\* the class held, also when another caller had created one already.
C13_EveryReaderCreates ==
    [][\A t \in Callers :
          (threads[t].pc = "engine" /\ threads'[t].pc # "engine") =>
             /\ ~threads[t].seen
             /\ created' = created + 1
             /\ engine'.set /\ engine'.id = created' /\ engine' # engine]_vars

\* Both callers read the flag as false, both have created a handle, and the
\* class holds the second one.
C13_Witness ==
    /\ created = 2 /\ engine.id = 2
    /\ \A t \in {1, 2} : ~threads[t].seen /\ threads[t].pc \in {"flag", "execute", "done", "raised"}

\* C14: whenever the connected flag is true the engine handle is set, and no
\* caller that has passed _connect has executed its statement on an unset
\* handle.
C14_FlagImpliesHandle ==
    /\ connected => engine.set
    /\ \A t \in Callers :
          /\ threads[t].pc = "execute" => engine.set
          /\ threads[t].pc \in {"done", "raised"} => threads[t].exc # "AttributeError"
          /\ threads[t].pc = "done" => threads[t].handle.set

\* A caller that read the flag as true, set by the other caller, has executed
\* its statement on the handle of the other caller.
C14_Witness ==
    \E t \in Callers :
        /\ threads[t].pc = "done" /\ threads[t].seen
        /\ threads[t].handle.set /\ created = 1

====
